---- MODULE Spec2Model ----
(***************************************************************************)
(* sqlitexx: a header-only C++14 wrapper over the SQLite3 C API.           *)
(*                                                                         *)
(* The wrapper is modelled as small state machines that share the same    *)
(* wrapper code (statement::execute, bind_to, the unique_ptr deleters):    *)
(*   SpecTxn      the transaction guard over one connection                *)
(*   SpecMove     transaction guards that are moved and move-assigned      *)
(*   SpecStmt     one prepared statement: execute, reset, fetch iteration  *)
(*   SpecOverlap  two consumers iterating the range of one statement       *)
(*   SpecBind     parameter binding on one prepared statement              *)
(*   SpecInt      integer bind_traits and column_traits                    *)
(*   SpecConn     the connection objects and their database handles        *)
(*   SpecHandles  ownership of the database and statement handles          *)
(*   SpecExec     connection::execute and the failure it raises            *)
(* The engine (the sqlite3 C API) is not part of the repository: every call *)
(* is modelled by its documented result set, the result being chosen       *)
(* nondeterministically where the engine may fail.                         *)
(***************************************************************************)
EXTENDS Integers, Sequences, FiniteSets

VARIABLES
    \* ---- transaction guard (column.hpp 107-154) ----
    guard,      \* guard[g]: one transaction object and its history
    inTxn,      \* engine: the connection has an open transaction
    db,         \* engine: the current content of the database
    snapshot,   \* engine: the content at the BEGIN of the open transaction
    \* ---- one prepared statement (statement.hpp 190-294) ----
    stmt,       \* engine: the statement's result set and cursor
    params,     \* engine: params[i], the value bound to parameter i
    lastBind,   \* history: the last bind() call and the engine calls it made
    iter,       \* the row iterator of the current fetch() pass
    pass,       \* history: the rows the current and the previous pass yielded
    lastOp,     \* history: the last execute / iterator call and its engine step
    \* ---- ownership of native handles (column.hpp 156-242, statement.hpp) ----
    handles,    \* engine: every handle it handed out, and how often released
    conn,       \* conn[c]: one connection object and the handle it owns
    obj,        \* obj[s]: one statement or row-range object and its handle
    lastOpen,   \* history: the last connection::open call
    \* ---- connection::execute (column.hpp 205-212, error.hpp 45-88) ----
    lastExec,   \* history: the last connection::execute call and its outcome
    msgs,       \* engine: msgs[m], how often diagnostic message m was freed
    pending,    \* the execute_error in flight (NoError: none)
    \* ---- integer bind / column traits (type_traits.hpp 133-146, 200-213) ----
    cell,       \* the integer bound last, as the engine stores it, and its extraction
    \* ---- overlapping iterations of one statement (statement.hpp 101-187) ----
    consumer,   \* consumer[c]: its iterator and the rows its view showed it
    lastCall,   \* history: the last begin() / operator++ of a consumer
    \* ---- moves of transaction guards (column.hpp 116-129) ----
    origin      \* origin[g]: "move" when guard g was move-constructed

txnVars == <<guard, inTxn, db, snapshot>>
iterVars == <<iter, pass, lastOp>>
connVars == <<handles, conn, obj, lastOpen>>
execVars == <<lastExec, msgs, pending>>
overlapVars == <<consumer, lastCall>>
nonTxnVars == <<stmt, params, lastBind, iter, pass, lastOp, handles, conn, obj, lastOpen,
                execVars, cell, overlapVars, origin>>
nonStmtVars == <<guard, inTxn, db, snapshot, handles, conn, obj, lastOpen, execVars, cell,
                 overlapVars, origin>>
nonConnVars == <<guard, inTxn, db, snapshot, stmt, params, lastBind, iter, pass, lastOp,
                 execVars, cell, overlapVars, origin>>
nonExecVars == <<guard, stmt, params, lastBind, iter, pass, lastOp,
                 handles, conn, obj, lastOpen, cell, overlapVars, origin>>
nonIntVars == <<guard, inTxn, db, snapshot, stmt, params, lastBind, iter, pass, lastOp,
                handles, conn, obj, lastOpen, execVars, overlapVars, origin>>
nonOverlapVars == <<guard, inTxn, db, snapshot, params, lastBind, iter, pass, lastOp,
                    handles, conn, obj, lastOpen, execVars, cell, origin>>
nonGuardVars == <<inTxn, db, snapshot, stmt, params, lastBind, iter, pass, lastOp,
                  handles, conn, obj, lastOpen, execVars, cell, overlapVars>>

vars == <<guard, inTxn, db, snapshot, stmt, params, lastBind, iter, pass, lastOp,
          handles, conn, obj, lastOpen, execVars, cell, overlapVars, origin>>

\* ------------------------------------------------------------------ bounds

\* Number of transaction guards constructed over the connection.
NGuards == 1
\* Engine steps one guard may issue through commit()/rollback().
MaxCalls == 2
\* The database content is a value 0..MaxVal.
MaxVal == 1

\* Number of parameters of the prepared statement.
NParams == 2
\* Length of the positional argument list of one bind() / execute(args...).
MaxArgs == 3
\* Length of the named argument list of one bind().
MaxNamed == 2
\* Number of rows of the statement's result set.
MaxRows == 2
\* Number of connection objects, and of statement / row-range objects.
NConns == 2
NObjs == 2
\* Number of handles the engine hands out.
MaxHandles == 3
\* Number of diagnostic messages the engine allocates.
MaxMsgs == 2

Guards == 1..NGuards
Values == 0..MaxVal

\* ------------------------------------------------------- engine result codes

StepSuccess == {"SQLITE_ROW", "SQLITE_DONE"}
StepErrors == {"SQLITE_BUSY", "SQLITE_ERROR"}

\* ---------------------------------------------------------------- helpers

Last(s) == s[Len(s)]

IsPrefix(s, t) == /\ Len(s) <= Len(t)
                  /\ \A i \in 1..Len(s) : s[i] = t[i]

\* ===================================================== statement::execute()

\* sqlite3_reset(): SQLITE_OK when the most recent step returned ROW or DONE
\* (or the statement was never stepped), else that step's error code.
sqlite3_reset_rc(lastrc) ==
    IF lastrc \in StepSuccess \cup {"SQLITE_OK"} THEN "SQLITE_OK" ELSE lastrc

\* statement::execute(): the failure it raises ("none" when it returns) when
\* the engine's step returns rc.  A step result other than DONE or ROW is
\* thrown; otherwise reset() runs and throws a non-OK reset result.
execute_raises(rc) ==
    IF rc # "SQLITE_DONE" /\ rc # "SQLITE_ROW"
    THEN rc
    ELSE IF sqlite3_reset_rc(rc) # "SQLITE_OK" THEN sqlite3_reset_rc(rc) ELSE "none"


\* ================================================= the engine's statement

\* The prepared statement as the engine holds it: its result set is the rows
\* 1..rows; pos rows have been produced since the last reset; state tells
\* whether it was stepped more recently than reset, and how the step ended.
StmtFresh(k) == [rows |-> k, pos |-> 0, state |-> "reset", lastrc |-> "SQLITE_OK"]

\* sqlite3_step restarts a statement that has run to completion or failed.
StepFrom(st) == IF st.state \in {"done", "error"} THEN 0 ELSE st.pos

\* sqlite3_step(): the results the engine may return: the next row, the end
\* of the result set, or an error.
sqlite3_step_results(st) ==
    StepErrors \cup {IF StepFrom(st) < st.rows THEN "SQLITE_ROW" ELSE "SQLITE_DONE"}

\* The statement after sqlite3_step() returned rc.
sqlite3_step(st, rc) ==
    IF rc = "SQLITE_ROW"
    THEN [st EXCEPT !.pos = StepFrom(st) + 1, !.state = "row", !.lastrc = rc]
    ELSE IF rc = "SQLITE_DONE"
    THEN [st EXCEPT !.pos = StepFrom(st), !.state = "done", !.lastrc = rc]
    ELSE [st EXCEPT !.pos = StepFrom(st), !.state = "error", !.lastrc = rc]

\* The statement after sqlite3_reset(): back before its first row.
sqlite3_reset(st) == [st EXCEPT !.pos = 0, !.state = "reset", !.lastrc = "SQLITE_OK"]

\* ================================================================== bind

Params == 1..NParams
\* The values an argument may carry; "huge" is a text longer than the
\* engine's length limit.  "NULL" is the state of an unbound parameter.
ArgValues == {"a", "b", "huge"}

\* The placeholder names of the statement: parameter i is named ParamName(i);
\* the name NParams + 1 is no placeholder of the statement.
Names == 1..(NParams + 1)
ParamName(i) == NParams + 1 - i

\* sqlite3_bind_parameter_index(): the index of the parameter named name, 0
\* when the statement has no such parameter.
sqlite3_bind_parameter_index(name) ==
    IF \E i \in Params : ParamName(i) = name
    THEN CHOOSE i \in Params : ParamName(i) = name
    ELSE 0

\* The engine's bind: the result of sqlite3_bind_*(stmt, index, value).
sqlite3_bind_rc(st, index, value) ==
    IF st.state # "reset" THEN "SQLITE_MISUSE"
    ELSE IF index \notin Params THEN "SQLITE_RANGE"
    ELSE IF value = "huge" THEN "SQLITE_TOOBIG"
    ELSE "SQLITE_OK"

\* The progress of one bind() call: the parameter values, the engine bind
\* calls made so far, and the failure raised ("none" while none is).
BindStart(ps) == [params |-> ps, calls |-> <<>>, exc |-> "none"]

\* statement::bind_to(int index, T&& value): one engine bind; a result other
\* than SQLITE_OK is thrown.
bind_to(st, acc, index, value) ==
    LET rc == sqlite3_bind_rc(st, index, value)
        call == [idx |-> index, val |-> value, rc |-> rc]
    IN IF rc # "SQLITE_OK"
       THEN [acc EXCEPT !.calls = Append(@, call), !.exc = rc]
       ELSE [acc EXCEPT !.calls = Append(@, call), !.params[index] = value]

\* statement::bind_to(const String& name, T&& value): resolve the name; a
\* name that is not found is skipped.
bind_to_name_NoSkip(st, acc, name, value) ==
    bind_to(st, acc, sqlite3_bind_parameter_index(name), value)

bind_to_name(st, acc, name, value) ==
    LET index == sqlite3_bind_parameter_index(name)
    IN IF index = 0 THEN acc ELSE bind_to(st, acc, index, value)

\* statement::bind_parameters: bind_to(I + 1, args[I]) for I = 0, 1, ... in
\* argument order; a throw ends the expansion.  i is the 1-based position.
RECURSIVE bind_parameters_NoStop(_, _, _, _)
bind_parameters_NoStop(st, acc, args, i) ==
    IF i > Len(args) THEN acc
    ELSE LET nxt == bind_to(st, acc, i, args[i])
         IN bind_parameters_NoStop(st, [nxt EXCEPT !.exc = IF acc.exc # "none" THEN acc.exc ELSE @],
                                   args, i + 1)

RECURSIVE bind_parameters(_, _, _, _)
bind_parameters(st, acc, args, i) ==
    IF i > Len(args) \/ acc.exc # "none" THEN acc
    ELSE bind_parameters(st, bind_to(st, acc, i, args[i]), args, i + 1)

\* statement::bind_impl(std::true_type, ...): bind_to(arg.name(), arg.get())
\* for every argument in order; a throw ends the expansion.
RECURSIVE bind_impl_named(_, _, _, _)
bind_impl_named(st, acc, args, i) ==
    IF i > Len(args) \/ acc.exc # "none" THEN acc
    ELSE bind_impl_named(st, bind_to_name(st, acc, args[i].name, args[i].value),
                         args, i + 1)

\* The argument lists of one call: positional values, or named parameters.
PositionalArgs == UNION {[1..n -> ArgValues] : n \in 1..MaxArgs}
NamedArgs == UNION {[1..n -> [name : Names, value : ArgValues]] : n \in 1..MaxNamed}
\* The argument lists execute(args...) is called with.
ExecuteArgs == UNION {[1..n -> {"a", "huge"}] : n \in 1..MaxArgs}

\* statement::bind(args...) with positional arguments.
bind_positional ==
    /\ lastBind.kind = "none"
    /\ \E args \in PositionalArgs :
        LET r == bind_parameters(stmt, BindStart(params), args, 1)
        IN /\ params' = r.params
           /\ lastBind' = [kind |-> "positional", args |-> args, before |-> params,
                           calls |-> r.calls, exc |-> r.exc]
           /\ UNCHANGED stmt
           /\ UNCHANGED iterVars
           /\ UNCHANGED nonStmtVars

\* statement::bind(args...) with every argument a named_parameter.
bind_named ==
    /\ lastBind.kind = "none"
    /\ \E args \in NamedArgs :
        LET r == bind_impl_named(stmt, BindStart(params), args, 1)
        IN /\ params' = r.params
           /\ lastBind' = [kind |-> "named", args |-> args, before |-> params,
                           calls |-> r.calls, exc |-> r.exc]
           /\ UNCHANGED stmt
           /\ UNCHANGED iterVars
           /\ UNCHANGED nonStmtVars

\* statement::clear_bindings(): every parameter back to NULL.
NoBind == [kind |-> "none", args |-> <<>>, before |-> <<>>,
           calls |-> <<>>, exc |-> "none"]

clear_bindings ==
    /\ lastBind.kind = "none"
    /\ params' = [i \in Params |-> "NULL"]
    /\ UNCHANGED <<stmt, lastBind>>
    /\ UNCHANGED iterVars
    /\ UNCHANGED nonStmtVars

\* The bind() call is over (returned or raised) and the caller goes on: the
\* next call starts from the parameter values this one left.
bind_return ==
    /\ lastBind.kind # "none"
    /\ lastBind' = NoBind
    /\ UNCHANGED <<stmt, params>>
    /\ UNCHANGED iterVars
    /\ UNCHANGED nonStmtVars

BindInit ==
    /\ params = [i \in Params |-> "NULL"]
    /\ lastBind = NoBind


\* ============================================================= statement

NoOp == [op |-> "none", steps |-> 0, rc |-> "none", exc |-> "none",
         retBefore |-> "none"]
NoIter == [live |-> FALSE, ret |-> "SQLITE_OK", laststep |-> "none"]
NoPass == [seen |-> <<>>, clean |-> FALSE, done |-> FALSE,
           prev |-> <<>>, prevClean |-> FALSE, prevDone |-> FALSE]

\* An operation other than the pass's own iterator touches the statement:
\* what the pass yields from here on is no longer one run of the result set.
Disturbed == [pass EXCEPT !.clean = FALSE]

\* statement::execute(): the statement after the engine's step returned rc.
\* The reset is reached only when the step result is DONE or ROW.
execute_stmt_NoReset(st, rc) == sqlite3_step(st, rc)

execute_stmt(st, rc) ==
    IF execute_raises(rc) = rc
    THEN sqlite3_step(st, rc)
    ELSE sqlite3_reset(sqlite3_step(st, rc))

\* statement::execute()
execute ==
    /\ \E rc \in sqlite3_step_results(stmt) :
         /\ stmt' = execute_stmt(stmt, rc)
         /\ lastOp' = [NoOp EXCEPT !.op = "execute", !.steps = 1, !.rc = rc,
                                   !.exc = execute_raises(rc)]
    /\ pass' = Disturbed
    /\ UNCHANGED <<iter, params, lastBind>>
    /\ UNCHANGED nonStmtVars

\* statement::execute(args...): bind(args...), then step and reset as above.
\* A failure of the bind leaves before the step.
execute_args ==
    /\ \E args \in ExecuteArgs :
         LET r == bind_parameters(stmt, BindStart(params), args, 1)
         IN /\ params' = r.params
            /\ IF r.exc # "none"
               THEN /\ stmt' = stmt
                    /\ lastOp' = [NoOp EXCEPT !.op = "execute_args", !.exc = r.exc]
               ELSE \E rc \in sqlite3_step_results(stmt) :
                      /\ stmt' = execute_stmt(stmt, rc)
                      /\ lastOp' = [NoOp EXCEPT !.op = "execute_args", !.steps = 1,
                                                !.rc = rc, !.exc = execute_raises(rc)]
    /\ pass' = [Disturbed EXCEPT !.prevClean = FALSE]
    /\ UNCHANGED <<iter, lastBind>>
    /\ UNCHANGED nonStmtVars

\* statement::reset(): a non-OK result of sqlite3_reset is thrown.
reset ==
    /\ stmt' = sqlite3_reset(stmt)
    /\ lastOp' = [NoOp EXCEPT !.op = "reset",
                              !.exc = IF sqlite3_reset_rc(stmt.lastrc) # "SQLITE_OK"
                                      THEN sqlite3_reset_rc(stmt.lastrc) ELSE "none"]
    /\ pass' = Disturbed
    /\ UNCHANGED <<iter, params, lastBind>>
    /\ UNCHANGED nonStmtVars

\* statement_iterator::advance(): whether it steps the engine: only while the
\* iterator's last result is not SQLITE_DONE.
advance_AlwaysSteps(ret) == TRUE

advance_steps(ret) == ret # "SQLITE_DONE"

\* statement_iterator::advance(): the failure thrown for step result rc.
advance_Swallow(rc) == "none"

advance_raises(rc) ==
    IF rc # "SQLITE_ROW" /\ rc # "SQLITE_DONE" THEN rc ELSE "none"

\* statement_iterator::advance(): the iterator after the step returned rc
\* (ret = sqlite3_step(...) is assigned before the test that throws).
advance_iter(it, rc) == [it EXCEPT !.ret = rc, !.laststep = rc]

\* The rows of the pass after a step that returned rc left the statement st:
\* the row view shows the statement's current row.
Yield(seen, st, rc) == IF rc = "SQLITE_ROW" THEN Append(seen, st.pos) ELSE seen

\* statement_range::begin(): the statement before the new iterator's first
\* step: begin() resets it.
begin_NoReset(st) == st

begin_reset(st) == sqlite3_reset(st)

\* The history when a new pass starts: the pass so far becomes the previous one.
NewPass(rows, clean, done) ==
    [seen |-> rows, clean |-> clean, done |-> done,
     prev |-> pass.seen, prevClean |-> pass.clean, prevDone |-> pass.done]

\* statement::fetch() const & followed by statement_range::begin(): reset(),
\* then the iterator's constructor steps once.  When reset() or the step
\* throws no iterator comes into being.
begin ==
    /\ LET rrc == sqlite3_reset_rc(stmt.lastrc)
           st1 == begin_reset(stmt)
       IN IF rrc # "SQLITE_OK"
          THEN /\ stmt' = st1
               /\ iter' = NoIter
               /\ pass' = NewPass(<<>>, FALSE, FALSE)
               /\ lastOp' = [NoOp EXCEPT !.op = "begin", !.exc = rrc]
          ELSE \E rc \in sqlite3_step_results(st1) :
                 LET st2 == sqlite3_step(st1, rc)
                     exc == advance_raises(rc)
                 IN /\ stmt' = st2
                    /\ iter' = IF exc # "none" THEN NoIter
                               ELSE advance_iter([NoIter EXCEPT !.live = TRUE], rc)
                    /\ pass' = NewPass(Yield(<<>>, st2, rc), exc = "none",
                                       rc = "SQLITE_DONE")
                    /\ lastOp' = [NoOp EXCEPT !.op = "begin", !.steps = 1,
                                              !.rc = rc, !.exc = exc]
    /\ UNCHANGED <<params, lastBind>>
    /\ UNCHANGED nonStmtVars

\* operator++ of the iterator, pre (op = "preinc") or post (op = "postinc",
\* which returns a copy taken before advance()).
Increment(op) ==
    /\ Len(pass.seen) <= MaxRows
    /\ IF advance_steps(iter.ret)
       THEN \E rc \in sqlite3_step_results(stmt) :
              LET st2 == sqlite3_step(stmt, rc)
                  exc == advance_raises(rc)
              IN /\ stmt' = st2
                 /\ iter' = advance_iter(iter, rc)
                 /\ pass' = [pass EXCEPT !.seen = Yield(@, st2, rc),
                                         !.clean = @ /\ exc = "none",
                                         !.done = rc = "SQLITE_DONE"]
                 /\ lastOp' = [NoOp EXCEPT !.op = op, !.steps = 1, !.rc = rc,
                                           !.exc = exc, !.retBefore = iter.ret]
       ELSE /\ lastOp' = [NoOp EXCEPT !.op = op, !.retBefore = iter.ret]
            /\ UNCHANGED <<stmt, iter, pass>>
    /\ UNCHANGED <<params, lastBind>>
    /\ UNCHANGED nonStmtVars

\* statement_iterator::operator++()
pre_increment ==
    /\ iter.live
    /\ Increment("preinc")

\* statement_iterator::operator++(int)
post_increment ==
    /\ iter.live
    /\ Increment("postinc")

\* statement_range::end(): the iterator end() returns.
end_iterator == [live |-> TRUE, ret |-> "SQLITE_DONE", laststep |-> "none"]

\* statement_iterator::operator==: same statement and same ret.
iter_equal(a, b) == a.ret = b.ret

StmtInit(k) ==
    /\ stmt = StmtFresh(k)
    /\ iter = NoIter
    /\ pass = NoPass
    /\ lastOp = NoOp


\* ======================================================= handle ownership

Conns == 1..NConns
Objs == 1..NObjs

\* A handle is a number 1..Len(handles); 0 is the null pointer.
NewHandle(kind, parent) ==
    [kind |-> kind, parent |-> parent, released |-> 0, ext |-> FALSE]

NoConn == [state |-> "none", db |-> 0]
NoObj == [state |-> "none", kind |-> "statement", ptr |-> 0]
NoOpen == [c |-> 0, rc |-> "none", exc |-> "none", h |-> 0,
           before |-> 0, after |-> 0, ext |-> FALSE]

\* connection::deleter / statement::deleter as run by unique_ptr: the handle
\* goes to sqlite3_close / sqlite3_finalize unless the pointer is null.
deleter(hs, h) == IF h = 0 THEN hs ELSE [hs EXCEPT ![h].released = @ + 1]

\* The statement handles of database handle h that live objects still own.
LiveStatements(h) ==
    {s \in Objs : obj[s].state = "alive" /\ obj[s].ptr # 0
                    /\ handles[obj[s].ptr].parent = h}

\* The caller's discipline: a database handle is given up only when no
\* statement prepared on it is still alive.
MayGiveUp(h) == h = 0 \/ LiveStatements(h) = {}

\* connection::connection() noexcept = default
connection(c) ==
    /\ conn[c].state = "none"
    /\ conn' = [conn EXCEPT ![c] = [state |-> "alive", db |-> 0]]
    /\ UNCHANGED <<handles, obj, lastOpen>>
    /\ UNCHANGED nonConnVars

\* sqlite3_open_v2: it succeeds, or it fails and still hands out a handle
\* (which the caller is to close), or it fails for lack of memory and hands
\* out none.
OpenOutcomes == {<<"SQLITE_OK", TRUE>>, <<"SQLITE_CANTOPEN", TRUE>>,
                 <<"SQLITE_NOMEM", FALSE>>}

\* connection::open after sqlite3_open_v2 returned rc and wrote handle h (0:
\* null) to ptr: what it throws, the handle the connection owns afterwards,
\* whether extended result codes were enabled on h, and the handles.
open_ResetFirst(hs, before, rc, h) ==
    [exc |-> IF rc # "SQLITE_OK" THEN rc ELSE "none",
     db |-> h,
     hs |-> deleter(IF h # 0 THEN [hs EXCEPT ![h].ext = TRUE] ELSE hs, before)]

open_body(hs, before, rc, h) ==
    IF rc # "SQLITE_OK"
    THEN [exc |-> rc, db |-> before, hs |-> hs]
    ELSE [exc |-> "none", db |-> h,
          hs |-> deleter([hs EXCEPT ![h].ext = TRUE], before)]

\* connection::open(filename, flags)
open(c) ==
    /\ conn[c].state = "alive"
    /\ MayGiveUp(conn[c].db)
    /\ Len(handles) < MaxHandles
    /\ \E o \in OpenOutcomes :
         LET h == IF o[2] THEN Len(handles) + 1 ELSE 0
             hs == IF o[2] THEN Append(handles, NewHandle("db", 0)) ELSE handles
             r == open_body(hs, conn[c].db, o[1], h)
         IN /\ handles' = r.hs
            /\ conn' = [conn EXCEPT ![c].db = r.db]
            /\ lastOpen' = [c |-> c, rc |-> o[1], exc |-> r.exc, h |-> h,
                            before |-> conn[c].db, after |-> r.db,
                            ext |-> h # 0 /\ r.hs[h].ext]
    /\ UNCHANGED obj
    /\ UNCHANGED nonConnVars

\* connection::is_open()
is_open(d) == d # 0

\* connection(connection&&): the implicit move constructor moves db.
connection_move(c, d) ==
    /\ c # d
    /\ conn[c].state = "alive"
    /\ conn[d].state = "none"
    /\ conn' = [conn EXCEPT ![d] = [state |-> "alive", db |-> conn[c].db],
                            ![c].db = 0]
    /\ UNCHANGED <<handles, obj, lastOpen>>
    /\ UNCHANGED nonConnVars

\* connection& operator=(connection&&): unique_ptr's move assignment releases
\* the handle the target owned and takes the source's.
connection_move_assign(c, d) ==
    /\ c # d
    /\ conn[c].state = "alive"
    /\ conn[d].state = "alive"
    /\ MayGiveUp(conn[d].db)
    /\ handles' = deleter(handles, conn[d].db)
    /\ conn' = [conn EXCEPT ![d].db = conn[c].db, ![c].db = 0]
    /\ UNCHANGED <<obj, lastOpen>>
    /\ UNCHANGED nonConnVars

\* connection::~connection(): the deleter closes the handle.
connection_dtor(c) ==
    /\ conn[c].state = "alive"
    /\ MayGiveUp(conn[c].db)
    /\ handles' = deleter(handles, conn[c].db)
    /\ conn' = [conn EXCEPT ![c].state = "destroyed"]
    /\ UNCHANGED <<obj, lastOpen>>
    /\ UNCHANGED nonConnVars

\* sqlite3_prepare_v2 on database handle d: on success it hands out a
\* statement handle, on failure it writes null.
PrepareResults(d) == IF d = 0 THEN {"SQLITE_MISUSE"} ELSE {"SQLITE_OK", "SQLITE_ERROR"}

\* connection::prepare(sql), i.e. statement::statement(db, sql): a failure of
\* sqlite3_prepare_v2 is thrown and no statement object comes into being.
prepare(c, s) ==
    /\ conn[c].state = "alive"
    /\ obj[s].state = "none"
    /\ Len(handles) < MaxHandles
    /\ \E rc \in PrepareResults(conn[c].db) :
         IF rc # "SQLITE_OK"
         THEN /\ obj' = [obj EXCEPT ![s].state = "failed"]
              /\ UNCHANGED handles
         ELSE /\ handles' = Append(handles, NewHandle("stmt", conn[c].db))
              /\ obj' = [obj EXCEPT ![s] = [state |-> "alive", kind |-> "statement",
                                            ptr |-> Len(handles) + 1]]
    /\ UNCHANGED <<conn, lastOpen>>
    /\ UNCHANGED nonConnVars

\* statement(statement&&), and statement::fetch() && which moves _ptr into
\* the statement_range it returns: the new object takes the handle.
MoveInto(s, t, kind) ==
    /\ obj[s].state = "alive"
    /\ obj[s].kind = "statement"
    /\ obj[t].state = "none"
    /\ obj' = [obj EXCEPT ![t] = [state |-> "alive", kind |-> kind, ptr |-> obj[s].ptr],
                          ![s].ptr = 0]
    /\ UNCHANGED <<handles, conn, lastOpen>>
    /\ UNCHANGED nonConnVars

statement_move(s, t) ==
    /\ s # t
    /\ MoveInto(s, t, "statement")

fetch_rvalue(s, t) ==
    /\ s # t
    /\ MoveInto(s, t, "range")

\* statement& operator=(statement&&): the target's handle is finalized.
statement_move_assign(s, t) ==
    /\ s # t
    /\ obj[s].state = "alive" /\ obj[s].kind = "statement"
    /\ obj[t].state = "alive" /\ obj[t].kind = "statement"
    /\ handles' = deleter(handles, obj[t].ptr)
    /\ obj' = [obj EXCEPT ![t].ptr = obj[s].ptr, ![s].ptr = 0]
    /\ UNCHANGED <<conn, lastOpen>>
    /\ UNCHANGED nonConnVars

\* ~statement() / ~statement_range(): the deleter finalizes the handle.
statement_dtor(s) ==
    /\ obj[s].state = "alive"
    /\ handles' = deleter(handles, obj[s].ptr)
    /\ obj' = [obj EXCEPT ![s].state = "destroyed", ![s].ptr = 0]
    /\ UNCHANGED <<conn, lastOpen>>
    /\ UNCHANGED nonConnVars

ConnInit ==
    /\ handles = <<>>
    /\ conn = [c \in Conns |-> NoConn]
    /\ obj = [s \in Objs |-> NoObj]
    /\ lastOpen = NoOpen

\* ============================================================ transaction

NoGuard == [state |-> "none", needs_rollback |-> FALSE, log |-> <<>>,
            beginDb |-> 0, preDb |-> 0, endDb |-> 0]

\* The engine's answer to "BEGIN TRANSACTION;" through connection::execute:
\* a transaction cannot start within a transaction.
BeginResults == IF inTxn THEN {"SQLITE_ERROR"} ELSE {"SQLITE_OK", "SQLITE_BUSY"}

\* The engine's answer to a step of COMMIT or ROLLBACK: it ends the open
\* transaction (DONE), or fails and leaves it open (BUSY); with no open
\* transaction the statement is an error.
TxnStepResults == IF inTxn THEN {"SQLITE_DONE", "SQLITE_BUSY"} ELSE {"SQLITE_ERROR"}

\* The engine's state <<inTxn, db>> after the step of statement sql returned rc.
TxnStepEffect(sql, rc) ==
    IF rc # "SQLITE_DONE" THEN <<inTxn, db>>
    ELSE IF sql = "ROLLBACK" THEN <<FALSE, snapshot>>
    ELSE <<FALSE, db>>

\* transaction::transaction(const Connection&): prepares COMMIT and ROLLBACK,
\* then executes BEGIN; needs_rollback starts true.  When BEGIN raises the
\* object is never constructed (its destructor never runs).
transaction(g) ==
    /\ guard[g].state = "none"
    /\ \E rc \in BeginResults :
         IF rc = "SQLITE_OK"
         THEN /\ guard' = [guard EXCEPT ![g] = [NoGuard EXCEPT
                               !.state = "alive", !.needs_rollback = TRUE,
                               !.beginDb = db]]
              /\ inTxn' = TRUE
              /\ snapshot' = db
              /\ UNCHANGED db
         ELSE /\ guard' = [guard EXCEPT ![g].state = "failed"]
              /\ UNCHANGED <<inTxn, db, snapshot>>
    /\ UNCHANGED nonTxnVars

\* The flag after commit()/rollback() ran its statement and execute() raised
\* exc ("none": it returned): the assignment needs_rollback = false is only
\* reached when execute() returns.
flag_KeepAfterRun(exc) == TRUE

flag_ClearAfterRaise(exc) == FALSE

flag_after_run(exc) == IF exc = "none" THEN FALSE ELSE TRUE

\* The body shared by commit() and rollback(): if(needs_rollback) { execute
\* the statement; needs_rollback = false; }.  by names the caller.
RunIfActive(g, sql, by, newstate) ==
    IF guard[g].needs_rollback
    THEN \E rc \in TxnStepResults :
           LET exc == execute_raises(rc)
               eff == TxnStepEffect(sql, rc)
           IN /\ guard' = [guard EXCEPT
                    ![g].log = Append(@, [sql |-> sql, rc |-> rc, by |-> by, exc |-> exc]),
                    ![g].needs_rollback = flag_after_run(exc),
                    ![g].state = newstate,
                    ![g].preDb = db,
                    ![g].endDb = eff[2]]
              /\ inTxn' = eff[1]
              /\ db' = eff[2]
              /\ UNCHANGED snapshot
    ELSE /\ guard' = [guard EXCEPT ![g].state = newstate,
                                   ![g].preDb = db, ![g].endDb = db]
         /\ UNCHANGED <<inTxn, db, snapshot>>

\* transaction::commit()
commit(g) ==
    /\ guard[g].state = "alive"
    /\ Len(guard[g].log) < MaxCalls
    /\ RunIfActive(g, "COMMIT", "commit", "alive")
    /\ UNCHANGED nonTxnVars

\* transaction::rollback()
rollback(g) ==
    /\ guard[g].state = "alive"
    /\ Len(guard[g].log) < MaxCalls
    /\ RunIfActive(g, "ROLLBACK", "rollback", "alive")
    /\ UNCHANGED nonTxnVars

\* transaction::~transaction() noexcept(false): if(needs_rollback) rollback();
\* a failure of the rollback propagates out of the destructor.
dtor_NoRollback(g) ==
    /\ guard[g].state = "alive"
    /\ guard' = [guard EXCEPT ![g].state = "destroyed",
                              ![g].preDb = db, ![g].endDb = db]
    /\ UNCHANGED <<inTxn, db, snapshot>>
    /\ UNCHANGED nonTxnVars

transaction_dtor(g) ==
    /\ guard[g].state = "alive"
    /\ RunIfActive(g, "ROLLBACK", "dtor", "destroyed")
    /\ UNCHANGED nonTxnVars

\* A statement executed through the connection changes the database content.
Write ==
    /\ \E v \in Values : db' = v /\ v # db
    /\ UNCHANGED <<guard, inTxn, snapshot>>
    /\ UNCHANGED nonTxnVars

TxnInit ==
    /\ guard = [g \in Guards |-> NoGuard]
    /\ inTxn = FALSE
    /\ db = 0
    /\ snapshot = 0


\* ===================================================== connection::execute

\* The SQL texts passed to connection::execute: the three transaction
\* statements, a data-changing statement and a text that does not compile.
ExecSql == {"BEGIN", "COMMIT", "ROLLBACK", "WRITE", "BAD"}

NoError == [raised |-> FALSE, code |-> "none", has_message |-> FALSE, message |-> 0]
NoExec == [sql |-> "none", rc |-> "none", msg |-> 0, exc |-> NoError]

\* sqlite3_exec can succeed on sql in the engine's current state.
ExecCanSucceed(sql) ==
    CASE sql = "BEGIN" -> ~inTxn
      [] sql \in {"COMMIT", "ROLLBACK"} -> inTxn
      [] sql = "WRITE" -> TRUE
      [] OTHER -> FALSE

\* sqlite3_exec(db, sql, nullptr, nullptr, &errmsg): the pairs <<status,
\* message written>>.  Success writes no message; an error writes one,
\* except when the memory for it cannot be obtained (SQLITE_NOMEM).
sqlite3_exec_results(sql) ==
    (IF ExecCanSucceed(sql) THEN {<<"SQLITE_OK", FALSE>>}
     ELSE {<<"SQLITE_ERROR", TRUE>>})
    \cup {<<"SQLITE_BUSY", TRUE>> : x \in IF sql = "BAD" THEN {} ELSE {1}}
    \cup {<<"SQLITE_NOMEM", FALSE>>}

\* The engine's state <<inTxn, db, snapshot>> after sqlite3_exec ran sql with
\* status rc, the data-changing statement writing v.
sqlite3_exec_effect(sql, rc, v) ==
    IF rc # "SQLITE_OK" THEN <<inTxn, db, snapshot>>
    ELSE CASE sql = "BEGIN" -> <<TRUE, db, db>>
           [] sql = "COMMIT" -> <<FALSE, db, snapshot>>
           [] sql = "ROLLBACK" -> <<FALSE, snapshot, snapshot>>
           [] OTHER -> <<inTxn, v, snapshot>>

\* detail::error_string::valid()
valid(str) == str # 0

\* connection::execute: the condition of its throw.
execute_throws_OnlyMessage(ret, error_msg) == valid(error_msg)

execute_throws(ret, error_msg) == ret # "SQLITE_OK" \/ valid(error_msg)

\* execute_error(ret, std::move(error_msg)): code(), has_message(), message().
execute_error(ret, error_msg) ==
    [raised |-> TRUE, code |-> ret, has_message |-> valid(error_msg), message |-> error_msg]

\* connection::execute(query): runs sqlite3_exec and throws execute_error
\* when the status is not SQLITE_OK or a message was written.  The message is
\* moved into the failure; the moved-from local error_string frees nothing.
connection_execute(sql) ==
    /\ ~pending.raised
    /\ \E res \in sqlite3_exec_results(sql), v \in Values :
         LET ret == res[1]
             error_msg == IF res[2] THEN Len(msgs) + 1 ELSE 0
             eff == sqlite3_exec_effect(sql, ret, v)
             exc == IF execute_throws(ret, error_msg)
                    THEN execute_error(ret, error_msg) ELSE NoError
         IN /\ (sql = "WRITE" /\ ret = "SQLITE_OK") => v # db
            /\ (sql # "WRITE" \/ ret # "SQLITE_OK") => v = 0
            /\ res[2] => Len(msgs) < MaxMsgs
            /\ msgs' = IF res[2] THEN Append(msgs, 0) ELSE msgs
            /\ inTxn' = eff[1]
            /\ db' = eff[2]
            /\ snapshot' = eff[3]
            /\ pending' = exc
            /\ lastExec' = [sql |-> sql, rc |-> ret, msg |-> error_msg, exc |-> exc]
    /\ UNCHANGED nonExecVars

\* The caller's handler ends: the execute_error is destroyed, and
\* error_string::~error_string passes its message to sqlite3_free.
execute_error_dtor ==
    /\ pending.raised
    /\ msgs' = IF valid(pending.message)
               THEN [msgs EXCEPT ![pending.message] = @ + 1] ELSE msgs
    /\ pending' = NoError
    /\ UNCHANGED <<lastExec, inTxn, db, snapshot>>
    /\ UNCHANGED nonExecVars

ExecInit ==
    /\ lastExec = NoExec
    /\ msgs = <<>>
    /\ pending = NoError

\* ======================================= integer bind_traits / column_traits

\* An integer is the sequence of its 16-bit limbs, least significant first,
\* in two's complement: a short is 1 limb, an int 2, a 64-bit integer 4.
\* A bool is one limb holding 0 or 1.
LimbBase == 2^16
SampleLimbs == {0, 1, 2^15 - 1, 2^15, 2^16 - 1}

\* is_integer<T>
IntegerTypes == {"bool", "short", "int", "long", "long long"}

\* The data models of the builds: long is 8 bytes (LP64) or 4 (LLP64, ILP32).
DataModels == {"LP64", "LLP64"}

\* sizeof(T)
sizeof(T, abi) ==
    CASE T = "bool" -> 1
      [] T = "short" -> 2
      [] T = "int" -> 4
      [] T = "long" -> IF abi = "LP64" THEN 8 ELSE 4
      [] OTHER -> 8

NLimbs(bytes) == IF bytes < 2 THEN 1 ELSE bytes \div 2

\* The values of type T that are bound.
ValuesOf(T, abi) ==
    IF T = "bool" THEN {<<0>>, <<1>>}
    ELSE [1..NLimbs(sizeof(T, abi)) -> SampleLimbs]

Negative(v) == v[Len(v)] >= LimbBase \div 2

\* Conversion of a signed integer to a wider signed type.
SignExtend(v, n) ==
    [i \in 1..n |-> IF i <= Len(v) THEN v[i]
                    ELSE IF Negative(v) THEN LimbBase - 1 ELSE 0]

\* Conversion of an integer to a narrower type keeps the low limbs.
Truncate(v, n) == [i \in 1..n |-> v[i]]

Convert(v, n) == IF n <= Len(v) THEN Truncate(v, n) ELSE SignExtend(v, n)

\* The value of type T passed as the int parameter of sqlite3_bind_int.
to_int(T, v) == IF T = "bool" THEN <<v[1], 0>> ELSE Convert(v, 2)

\* The int returned by sqlite3_column_int converted to the return type T.
from_int(T, abi, i) ==
    IF T = "bool" THEN (IF i = <<0, 0>> THEN <<0>> ELSE <<1>>)
    ELSE Convert(i, NLimbs(sizeof(T, abi)))

\* The engine stores every integer as a 64-bit signed integer.
sqlite3_bind_int(i) == SignExtend(i, 4)
sqlite3_bind_int64(v) == v

\* sqlite3_column_int returns the low 32 bits of the stored integer.
sqlite3_column_int(stored) == Truncate(stored, 2)
sqlite3_column_int64(stored) == stored

\* bind_traits<T>::bind for an integer type T: the engine call chosen by
\* sizeof(T) < 8.
bind_call_Always32(T, abi) == "sqlite3_bind_int"

bind_call(T, abi) ==
    IF sizeof(T, abi) < 8 THEN "sqlite3_bind_int" ELSE "sqlite3_bind_int64"

\* do_integer_bind: the integer the engine stores.
do_integer_bind(call, T, v) ==
    IF call = "sqlite3_bind_int" THEN sqlite3_bind_int(to_int(T, v))
    ELSE sqlite3_bind_int64(Convert(v, 4))

\* column_traits<T>::convert for an integer type T.
convert_call(T, abi) ==
    IF sizeof(T, abi) < 8 THEN "sqlite3_column_int" ELSE "sqlite3_column_int64"

\* do_integer_convert: the value of type T returned.
do_integer_convert(call, T, abi, stored) ==
    IF call = "sqlite3_column_int" THEN from_int(T, abi, sqlite3_column_int(stored))
    ELSE Convert(sqlite3_column_int64(stored), NLimbs(sizeof(T, abi)))

NoCell(abi) == [abi |-> abi, T |-> "none", v |-> <<>>, bindCall |-> "none", stored |-> <<>>,
                outT |-> "none", colCall |-> "none", out |-> <<>>]

\* statement::bind_to(index, value) with an integer value of type T, on a
\* parameter that holds no value.
bind_integer ==
    /\ cell.T = "none"
    /\ \E T \in IntegerTypes : \E v \in ValuesOf(T, cell.abi) :
         LET call == bind_call(T, cell.abi)
         IN cell' = [abi |-> cell.abi, T |-> T, v |-> v, bindCall |-> call,
                     stored |-> do_integer_bind(call, T, v),
                     outT |-> "none", colCall |-> "none", out |-> <<>>]
    /\ UNCHANGED nonIntVars

\* column::get<T>(index) on the row that carries the bound integer.
column_get ==
    /\ cell.T # "none"
    /\ \E T \in IntegerTypes :
         LET call == convert_call(T, cell.abi)
         IN cell' = [cell EXCEPT !.outT = T, !.colCall = call,
                        !.out = do_integer_convert(call, T, cell.abi, cell.stored)]
    /\ UNCHANGED nonIntVars

\* The state of the specifications that bind no integer.
\* statement::clear_bindings(): the parameter holds no value again.
clear_integer ==
    /\ cell.T # "none"
    /\ cell' = NoCell(cell.abi)
    /\ UNCHANGED nonIntVars

IntBase == cell = NoCell("LP64")

IntInit == \E abi \in DataModels : cell = NoCell(abi)


\* ============================== two iterations of one statement, interleaved

\* The consumers that iterate the range of the same statement.
Consumers == {1, 2}

NoConsumer == [it |-> NoIter, seen |-> <<>>]
NoCall == [c |-> 0, op |-> "none", rc |-> "none", exc |-> "none"]

\* A consumer calls statement_range::begin(): reset(), then the constructor
\* of its iterator steps the statement.  The consumer reads the row its new
\* iterator shows.
consumer_begin(c) ==
    /\ LET rrc == sqlite3_reset_rc(stmt.lastrc)
           st1 == begin_reset(stmt)
       IN IF rrc # "SQLITE_OK"
          THEN /\ stmt' = st1
               /\ consumer' = [consumer EXCEPT ![c] = NoConsumer]
               /\ lastCall' = [c |-> c, op |-> "begin", rc |-> rrc, exc |-> rrc]
          ELSE \E rc \in sqlite3_step_results(st1) :
                 LET st2 == sqlite3_step(st1, rc)
                     exc == advance_raises(rc)
                 IN /\ stmt' = st2
                    /\ consumer' = [consumer EXCEPT ![c] =
                          [it |-> IF exc # "none" THEN NoIter
                                  ELSE advance_iter([NoIter EXCEPT !.live = TRUE], rc),
                           seen |-> Yield(<<>>, st2, rc)]]
                    /\ lastCall' = [c |-> c, op |-> "begin", rc |-> rc, exc |-> exc]
    /\ UNCHANGED nonOverlapVars

\* A consumer increments its iterator and reads the row it shows.
consumer_increment(c) ==
    /\ consumer[c].it.live
    /\ Len(consumer[c].seen) <= MaxRows
    /\ IF advance_steps(consumer[c].it.ret)
       THEN \E rc \in sqlite3_step_results(stmt) :
              LET st2 == sqlite3_step(stmt, rc)
                  exc == advance_raises(rc)
              IN /\ stmt' = st2
                 /\ consumer' = [consumer EXCEPT
                       ![c].it = advance_iter(@, rc),
                       ![c].seen = Yield(@, st2, rc)]
                 /\ lastCall' = [c |-> c, op |-> "increment", rc |-> rc, exc |-> exc]
       ELSE /\ lastCall' = [c |-> c, op |-> "increment", rc |-> "none", exc |-> "none"]
            /\ UNCHANGED <<stmt, consumer>>
    /\ UNCHANGED nonOverlapVars

OverlapInit ==
    /\ consumer = [c \in Consumers |-> NoConsumer]
    /\ lastCall = NoCall


\* ============================================ moves of transaction guards

\* The guard objects of a program that moves guards around.
MovableGuards == {1, 2}

\* transaction(transaction&& o): takes o's statements and o's flag, and
\* clears o's flag.  No engine call is made.
transaction_move(t, o) ==
    /\ t # o
    /\ guard[t].state = "none"
    /\ guard[o].state = "alive"
    /\ guard' = [guard EXCEPT
          ![t] = [NoGuard EXCEPT !.state = "alive",
                                 !.needs_rollback = guard[o].needs_rollback,
                                 !.beginDb = guard[o].beginDb],
          ![o].needs_rollback = FALSE]
    /\ origin' = [origin EXCEPT ![t] = "move"]
    /\ UNCHANGED nonGuardVars

\* transaction::operator=(transaction&& o): needs_rollback = o.needs_rollback;
\* the statements are move-assigned (the old ones are finalized);
\* o.needs_rollback = false.  No engine statement is executed; t and o may
\* be the same object.
transaction_move_assign(t, o) ==
    /\ guard[t].state = "alive"
    /\ guard[o].state = "alive"
    /\ guard' = [guard EXCEPT
          ![t].needs_rollback = guard[o].needs_rollback,
          ![t].beginDb = guard[o].beginDb,
          ![o].needs_rollback = FALSE]
    /\ UNCHANGED origin
    /\ UNCHANGED nonGuardVars

OriginInit == origin = [g \in MovableGuards |-> "none"]

MoveInit ==
    /\ guard = [g \in MovableGuards |-> NoGuard]
    /\ inTxn = FALSE
    /\ db = 0
    /\ snapshot = 0


\* ================================================================== specs

InitTxn == TxnInit /\ BindInit /\ StmtInit(0) /\ ConnInit /\ ExecInit /\ IntBase /\ OverlapInit /\ OriginInit

NextTxn ==
    \/ \E g \in Guards : transaction(g)
    \/ \E g \in Guards : commit(g)
    \/ \E g \in Guards : rollback(g)
    \/ \E g \in Guards : transaction_dtor(g)
    \/ Write

SpecTxn == InitTxn /\ [][NextTxn]_vars

InitBind == TxnInit /\ BindInit /\ StmtInit(0) /\ ConnInit /\ ExecInit /\ IntBase /\ OverlapInit /\ OriginInit

NextBind ==
    \/ bind_positional
    \/ bind_named
    \/ clear_bindings
    \/ bind_return
    \/ execute
    \/ reset

SpecBind == InitBind /\ [][NextBind]_vars

InitStmt == TxnInit /\ BindInit /\ ConnInit /\ ExecInit /\ IntBase /\ OverlapInit /\ OriginInit /\ \E k \in 0..MaxRows : StmtInit(k)

NextStmt ==
    \/ execute
    \/ execute_args
    \/ reset
    \/ begin
    \/ pre_increment
    \/ post_increment

SpecStmt == InitStmt /\ [][NextStmt]_vars

InitConn == TxnInit /\ BindInit /\ StmtInit(0) /\ ConnInit /\ ExecInit /\ IntBase /\ OverlapInit /\ OriginInit

\* The connection objects alone.
NextConn ==
    \/ \E c \in Conns : connection(c)
    \/ \E c \in Conns : open(c)
    \/ \E c, d \in Conns : connection_move(c, d)
    \/ \E c, d \in Conns : connection_move_assign(c, d)
    \/ \E c \in Conns : connection_dtor(c)

SpecConn == InitConn /\ [][NextConn]_vars

\* The connections with the statements and row ranges prepared on them.
NextHandles ==
    \/ \E c \in Conns : connection(c)
    \/ \E c \in Conns : open(c)
    \/ \E c, d \in Conns : connection_move(c, d)
    \/ \E c, d \in Conns : connection_move_assign(c, d)
    \/ \E c \in Conns : connection_dtor(c)
    \/ \E c \in Conns, s \in Objs : prepare(c, s)
    \/ \E s, t \in Objs : statement_move(s, t)
    \/ \E s, t \in Objs : fetch_rvalue(s, t)
    \/ \E s, t \in Objs : statement_move_assign(s, t)
    \/ \E s \in Objs : statement_dtor(s)

SpecHandles == InitConn /\ [][NextHandles]_vars

\* Direct execution of SQL text on one connection.
InitExec == TxnInit /\ BindInit /\ StmtInit(0) /\ ConnInit /\ ExecInit /\ IntBase /\ OverlapInit /\ OriginInit

NextExec ==
    \/ \E sql \in ExecSql : connection_execute(sql)
    \/ execute_error_dtor

SpecExec == InitExec /\ [][NextExec]_vars

\* Binding an integer and extracting it from the row that carries it.
InitInt == TxnInit /\ BindInit /\ StmtInit(0) /\ ConnInit /\ ExecInit /\ IntInit /\ OverlapInit /\ OriginInit

NextInt ==
    \/ bind_integer
    \/ column_get
    \/ clear_integer

SpecInt == InitInt /\ [][NextInt]_vars

\* Two consumers iterating the range of one statement.
InitOverlap ==
    /\ TxnInit /\ BindInit /\ ConnInit /\ ExecInit /\ IntBase /\ OverlapInit /\ OriginInit
    /\ \E k \in 0..MaxRows : StmtInit(k)

NextOverlap ==
    \/ \E c \in Consumers : consumer_begin(c)
    \/ \E c \in Consumers : consumer_increment(c)

SpecOverlap == InitOverlap /\ [][NextOverlap]_vars

\* Transaction guards over one connection that are constructed, moved,
\* committed, rolled back and destroyed.
InitMove ==
    /\ MoveInit /\ BindInit /\ StmtInit(0) /\ ConnInit /\ ExecInit /\ IntBase
    /\ OverlapInit /\ OriginInit

NextMove ==
    \/ \E g \in MovableGuards : transaction(g)
    \/ \E t, o \in MovableGuards : transaction_move(t, o)
    \/ \E t, o \in MovableGuards : transaction_move_assign(t, o)
    \/ \E g \in MovableGuards : commit(g)
    \/ \E g \in MovableGuards : rollback(g)
    \/ \E g \in MovableGuards : transaction_dtor(g)
    \/ Write

SpecMove == InitMove /\ [][NextMove]_vars

\* ------------------------------------------------------------ claims C1, C2

\* The runs of COMMIT / ROLLBACK that guard g issued and that returned.
OkRuns(g) == {i \in 1..Len(guard[g].log) : guard[g].log[i].exc = "none"}

\* The steps the destructor of guard g issued.
DtorRuns(g) == {i \in 1..Len(guard[g].log) : guard[g].log[i].by = "dtor"}

\* commit() or rollback() completed on guard g before its destruction.
Completed(g) ==
    \E i \in OkRuns(g) : guard[g].log[i].by \in {"commit", "rollback"}

\* C1 as stated: over the life of one guard at most one COMMIT / ROLLBACK
\* statement is executed in total, and once one has run needs_rollback is
\* false (so nothing later executes).
C1_AtMostOneExecuted ==
    \A g \in Guards :
        /\ Len(guard[g].log) <= 1
        /\ (Len(guard[g].log) >= 1 => ~guard[g].needs_rollback)

\* C1 amended: at most one COMMIT / ROLLBACK execution returns without
\* raising; it is the last statement the guard ever executes (every later
\* commit(), rollback() and the destructor execute nothing), and after it
\* needs_rollback is false.  An execution that raises leaves the guard
\* active, so a later call executes a statement again.
C1_AtMostOneCompleted ==
    \A g \in Guards :
        /\ Cardinality(OkRuns(g)) <= 1
        /\ \A i \in OkRuns(g) : i = Len(guard[g].log)
        /\ (OkRuns(g) # {} => ~guard[g].needs_rollback)
        /\ (OkRuns(g) = {} /\ guard[g].state = "alive" => guard[g].needs_rollback)

\* A guard whose commit() ran after a failed attempt and whose destructor
\* then executed nothing.
C1_Witness ==
    \E g \in Guards :
        /\ guard[g].state = "destroyed"
        /\ Len(guard[g].log) = 2
        /\ guard[g].log[1].exc # "none"
        /\ guard[g].log[2].by = "commit"
        /\ guard[g].log[2].exc = "none"

\* C2 as stated: a guard destroyed while still active executes ROLLBACK
\* exactly once in its destructor and the database is back at its content at
\* BEGIN; a guard whose commit() succeeded executes no ROLLBACK there.
C2_DtorRollsBack ==
    \A g \in Guards :
        guard[g].state = "destroyed" =>
            IF Completed(g)
            THEN DtorRuns(g) = {}
            ELSE /\ DtorRuns(g) = {Len(guard[g].log)}
                 /\ Last(guard[g].log).sql = "ROLLBACK"
                 /\ guard[g].endDb = guard[g].beginDb

\* C2 amended: a guard destroyed while still active executes ROLLBACK exactly
\* once in its destructor; when that ROLLBACK does not raise, the database is
\* back at its content at BEGIN (when it raises, the failure leaves the
\* destructor and the changes stay).  A guard on which commit() or rollback()
\* completed executes nothing in its destructor.
C2_DtorRollsBackUnlessRaise ==
    \A g \in Guards :
        guard[g].state = "destroyed" =>
            IF Completed(g)
            THEN DtorRuns(g) = {}
            ELSE /\ DtorRuns(g) = {Len(guard[g].log)}
                 /\ Last(guard[g].log).sql = "ROLLBACK"
                 /\ (Last(guard[g].log).exc = "none"
                        => guard[g].endDb = guard[g].beginDb)
                 /\ (Last(guard[g].log).exc # "none"
                        => guard[g].endDb = guard[g].preDb)

\* An active guard went out of scope after a change, and the change is gone.
C2_Witness ==
    \E g \in Guards :
        /\ guard[g].state = "destroyed"
        /\ ~Completed(g)
        /\ Last(guard[g].log).by = "dtor"
        /\ Last(guard[g].log).exc = "none"
        /\ guard[g].preDb # guard[g].beginDb
        /\ guard[g].endDb = guard[g].beginDb

\* ------------------------------------------------------ claims C3, C4, C5, C6

\* C3: whenever execute() or execute(args...) returns without raising, the
\* statement was stepped once (the step reported row or done) and then reset:
\* it is unstepped, and its next step produces the first row of the result
\* set (or done when the result set is empty).
C3_ExecuteLeavesReset ==
    (lastOp.op \in {"execute", "execute_args"} /\ lastOp.exc = "none") =>
        /\ lastOp.steps = 1
        /\ lastOp.rc \in StepSuccess
        /\ stmt.state = "reset"
        /\ stmt.pos = 0
        /\ sqlite3_step_results(stmt) \cap StepSuccess =
              {IF stmt.rows > 0 THEN "SQLITE_ROW" ELSE "SQLITE_DONE"}
        /\ (stmt.rows > 0 => sqlite3_step(stmt, "SQLITE_ROW").pos = 1)

\* execute() returned after a step that reported a row.
C3_Witness ==
    /\ lastOp.op = "execute"
    /\ lastOp.exc = "none"
    /\ lastOp.rc = "SQLITE_ROW"
    /\ stmt.state = "reset"

\* C4: every engine step issued by execute or by the row iterator (begin(),
\* pre- and post-increment) whose result is neither row nor done raises a
\* failure carrying exactly that code, and the iterator it leaves, if any,
\* is not the end of the sequence.
C4_StepErrorRaised ==
    (lastOp.steps = 1 /\ lastOp.rc \notin StepSuccess) =>
        /\ lastOp.exc = lastOp.rc
        /\ (iter.live /\ lastOp.op \in {"begin", "preinc", "postinc"}
              => ~iter_equal(iter, end_iterator))

\* A post-increment whose step failed with SQLITE_BUSY raised SQLITE_BUSY.
C4_Witness ==
    /\ lastOp.op = "postinc"
    /\ lastOp.steps = 1
    /\ lastOp.rc = "SQLITE_BUSY"
    /\ lastOp.exc = "SQLITE_BUSY"

\* C5: two passes over fetch() in succession, neither disturbed by a failure
\* or by another operation on the statement, yield the same rows: the
\* shorter pass is a prefix of the longer, a pass that reached done holds
\* every row the other yielded, and two passes that reached done are equal.
C5_SameRowsTwice ==
    (pass.clean /\ pass.prevClean) =>
        /\ (IsPrefix(pass.seen, pass.prev) \/ IsPrefix(pass.prev, pass.seen))
        /\ (pass.prevDone => IsPrefix(pass.seen, pass.prev))
        /\ (pass.done => IsPrefix(pass.prev, pass.seen))
        /\ (pass.done /\ pass.prevDone => pass.seen = pass.prev)

\* The first pass was abandoned after its first row and the second pass ran
\* to done, yielding that row again and more.
C5_Witness ==
    /\ pass.clean /\ pass.prevClean
    /\ ~pass.prevDone
    /\ pass.done
    /\ Len(pass.prev) = 1
    /\ Len(pass.seen) = 2

\* C6: one undisturbed pass over a statement with k rows yields the rows
\* 1..k in order and then equals end(); the iterator equals end() exactly
\* when its last step reported done (begin() == end() on an empty result);
\* an increment of an iterator whose last step reported done steps nothing.
C6_PassYieldsAllRows ==
    /\ (iter.live /\ pass.clean) =>
          /\ pass.seen = [i \in 1..Len(pass.seen) |-> i]
          /\ Len(pass.seen) <= stmt.rows
          /\ (iter_equal(iter, end_iterator) => Len(pass.seen) = stmt.rows)
          /\ (~iter_equal(iter, end_iterator) => Len(pass.seen) >= 1)
    /\ iter.live =>
          (iter_equal(iter, end_iterator) <=> iter.laststep = "SQLITE_DONE")
    /\ (lastOp.op \in {"preinc", "postinc"} /\ lastOp.retBefore = "SQLITE_DONE") =>
          /\ lastOp.steps = 0
          /\ iter_equal(iter, end_iterator)

\* A pass over two rows reached end() and was then incremented once more.
C6_Witness ==
    /\ iter.live /\ pass.clean
    /\ stmt.rows = 2
    /\ pass.seen = <<1, 2>>
    /\ iter_equal(iter, end_iterator)
    /\ lastOp.op = "preinc"
    /\ lastOp.retBefore = "SQLITE_DONE"

\* ------------------------------------------------------------ claims C7, C8

\* The named argument a names a parameter of the statement.
Resolved(a) == sqlite3_bind_parameter_index(a.name) # 0

\* The parameters the named argument list args names.
NamedParams(args) ==
    {sqlite3_bind_parameter_index(args[j].name) : j \in 1..Len(args)} \ {0}

\* The value of the last argument of args that names parameter p.
LastValueFor(args, p) ==
    LET js == {j \in 1..Len(args) : sqlite3_bind_parameter_index(args[j].name) = p}
    IN args[CHOOSE j \in js : \A k \in js : k <= j].value

\* What C7 says of every named bind() with an unresolved name, whether or not
\* an engine bind fails: the engine bind calls are those of the resolved
\* arguments, in order (none for an unresolved one), and no parameter the
\* call did not name changes.
NamedCallsOnlyResolved ==
    LET res == SelectSeq(lastBind.args, Resolved)
    IN /\ Len(lastBind.calls) <= Len(res)
       /\ \A j \in 1..Len(lastBind.calls) :
            /\ lastBind.calls[j].idx = sqlite3_bind_parameter_index(res[j].name)
            /\ lastBind.calls[j].val = res[j].value
       /\ \A q \in Params \ NamedParams(lastBind.args) : params[q] = lastBind.before[q]

\* The call completed and bound every resolved argument to its index.
NamedAllBound ==
    /\ lastBind.exc = "none"
    /\ Len(lastBind.calls) = Len(SelectSeq(lastBind.args, Resolved))
    /\ \A j \in 1..Len(lastBind.calls) : lastBind.calls[j].rc = "SQLITE_OK"
    /\ \A q \in NamedParams(lastBind.args) : params[q] = LastValueFor(lastBind.args, q)

HasUnresolved ==
    /\ lastBind.kind = "named"
    /\ \E j \in 1..Len(lastBind.args) : ~Resolved(lastBind.args[j])

\* C7 as stated: a named bind() in which one name does not resolve completes
\* without raising, makes no engine bind call for that argument, leaves every
\* parameter it did not name unchanged and binds every other argument to its
\* resolved index.
C7_UnresolvedSkipped ==
    HasUnresolved => (NamedCallsOnlyResolved /\ NamedAllBound)

\* C7 amended: the unresolved argument makes no engine bind call and raises
\* nothing, and no parameter the call did not name changes; bind() completes
\* without raising, every resolved argument bound to its index, when every
\* engine bind of the call returns success; when one returns non-success,
\* bind() raises that code there and binds no later argument.
C7_UnresolvedSkippedUnlessBindFails ==
    HasUnresolved =>
        /\ NamedCallsOnlyResolved
        /\ \A j \in 1..(Len(lastBind.calls) - 1) : lastBind.calls[j].rc = "SQLITE_OK"
        /\ IF lastBind.calls # <<>> /\ Last(lastBind.calls).rc # "SQLITE_OK"
           THEN lastBind.exc = Last(lastBind.calls).rc
           ELSE NamedAllBound

\* The first name did not resolve and the second argument was bound.
C7_Witness ==
    /\ HasUnresolved
    /\ Len(lastBind.args) = 2
    /\ ~Resolved(lastBind.args[1])
    /\ Resolved(lastBind.args[2])
    /\ lastBind.exc = "none"
    /\ Len(lastBind.calls) = 1
    /\ params[lastBind.calls[1].idx] = lastBind.args[2].value
    /\ lastBind.before[lastBind.calls[1].idx] # lastBind.args[2].value

\* C8: a positional bind(a1..an) issues the engine binds of a1, a2, ... to the
\* indices 1, 2, ... in that order and stops at the first that returns
\* non-success: it raises that code, the parameters before it hold the values
\* just bound, and that parameter and every later one are as before the call.
\* When none fails every argument is bound.
C8_PositionalStopsAtFirstFailure ==
    lastBind.kind = "positional" =>
        LET args == lastBind.args
            calls == lastBind.calls
            n == Len(calls)
        IN /\ n >= 1 /\ n <= Len(args)
           /\ \A j \in 1..n : calls[j].idx = j /\ calls[j].val = args[j]
           /\ \A j \in 1..(n - 1) : calls[j].rc = "SQLITE_OK"
           /\ IF calls[n].rc # "SQLITE_OK"
              THEN /\ lastBind.exc = calls[n].rc
                   /\ \A q \in Params :
                        params[q] = IF q < n THEN args[q] ELSE lastBind.before[q]
              ELSE /\ lastBind.exc = "none"
                   /\ n = Len(args)
                   /\ \A q \in Params :
                        params[q] = IF q <= n THEN args[q] ELSE lastBind.before[q]

\* The second of three arguments failed: the first is bound, the third was
\* never passed to the engine.
C8_Witness ==
    /\ lastBind.kind = "positional"
    /\ Len(lastBind.args) = 3
    /\ Len(lastBind.calls) = 2
    /\ lastBind.exc = "SQLITE_TOOBIG"
    /\ params[1] = lastBind.args[1]
    /\ lastBind.before[1] # lastBind.args[1]
    /\ params[2] = lastBind.before[2]

\* ----------------------------------------------------------- claims C9, C10

\* The live objects that own handle h.
Owners(h) ==
    {<<"connection", c>> : c \in {c \in Conns : conn[c].state = "alive" /\ conn[c].db = h}}
    \cup {<<"object", s>> : s \in {s \in Objs : obj[s].state = "alive" /\ obj[s].ptr = h}}

\* C9: every handle the engine handed out is released exactly once on every
\* path: no handle is released twice, a handle not yet released is owned by
\* exactly one live object (whose destruction releases it), a released handle
\* is owned by none; an object that was moved from owns nothing.
C9_HandlesReleasedOnce ==
    \A h \in 1..Len(handles) :
        /\ handles[h].released <= 1
        /\ (handles[h].released = 0 => Cardinality(Owners(h)) = 1)
        /\ (handles[h].released = 1 => Owners(h) = {})

\* C10: connection::open either raises the engine's status code and leaves
\* the handle the connection owns (and is_open()) as before the call, or
\* succeeds, and then the connection owns the new handle, on which extended
\* result codes have been enabled.
C10_OpenAllOrNothing ==
    lastOpen.c # 0 =>
        IF lastOpen.rc # "SQLITE_OK"
        THEN /\ lastOpen.exc = lastOpen.rc
             /\ lastOpen.after = lastOpen.before
             /\ is_open(lastOpen.after) = is_open(lastOpen.before)
        ELSE /\ lastOpen.exc = "none"
             /\ lastOpen.h # 0
             /\ lastOpen.after = lastOpen.h
             /\ is_open(lastOpen.after)
             /\ lastOpen.ext

\* open() failed on a connection that was already open, which still owns its
\* old handle.
C10_Witness ==
    /\ lastOpen.c # 0
    /\ lastOpen.rc = "SQLITE_CANTOPEN"
    /\ lastOpen.before # 0
    /\ conn[lastOpen.c].state = "alive"
    /\ conn[lastOpen.c].db = lastOpen.before
    /\ handles[lastOpen.before].released = 0

\* ---------------------------------------------------------------- claim C11

\* C11: connection::execute raises exactly when the engine's exec returned a
\* non-success status or wrote a diagnostic message; the failure carries
\* that status and that message, has_message() being true exactly when the
\* engine wrote one; otherwise the call returns.
C11_ExecuteRaisesIff ==
    lastExec.sql # "none" =>
        /\ lastExec.exc.raised <=> (lastExec.rc # "SQLITE_OK" \/ lastExec.msg # 0)
        /\ lastExec.exc.raised =>
              /\ lastExec.exc.code = lastExec.rc
              /\ lastExec.exc.has_message <=> (lastExec.msg # 0)
              /\ lastExec.exc.message = lastExec.msg
        /\ ~lastExec.exc.raised => lastExec.exc = NoError

\* The engine failed without being able to write a message, and execute
\* raised a failure that has none.
C11_Witness ==
    /\ lastExec.sql = "WRITE"
    /\ lastExec.rc = "SQLITE_NOMEM"
    /\ lastExec.msg = 0
    /\ lastExec.exc.raised
    /\ ~lastExec.exc.has_message
    /\ pending = lastExec.exc

\* ---------------------------------------------------------------- claim C12

\* C12: for every integer type T and every value v of T, binding v and then
\* extracting type T from the row that carries it returns v; a type narrower
\* than 8 bytes goes through sqlite3_bind_int and sqlite3_column_int, an
\* 8-byte type through sqlite3_bind_int64 and sqlite3_column_int64.
C12_IntegerRoundTrip ==
    (cell.T # "none" /\ cell.outT = cell.T) =>
        /\ cell.out = cell.v
        /\ cell.bindCall = IF sizeof(cell.T, cell.abi) < 8
                           THEN "sqlite3_bind_int" ELSE "sqlite3_bind_int64"
        /\ cell.colCall = IF sizeof(cell.T, cell.abi) < 8
                          THEN "sqlite3_column_int" ELSE "sqlite3_column_int64"

\* The smallest long long went through the 64-bit calls and came back.
C12_Witness ==
    /\ cell.T = "long long"
    /\ cell.outT = "long long"
    /\ cell.v = <<0, 0, 0, 2^15>>
    /\ cell.stored = cell.v
    /\ cell.out = cell.v

\* ---------------------------------------------------------------- claim C13

\* The engine call of the last begin() / operator++ returned a failure code.
EngineFailed(rc) == rc \notin {"none", "SQLITE_OK", "SQLITE_ROW", "SQLITE_DONE"}

\* C13: when two consumers interleave their iterations of one statement the
\* wrapper raises nothing for the overlap: a call raises exactly when the
\* engine call it made returned a failure code, and it raises that code.  A
\* begin() that produces a row puts the one shared cursor on the first row,
\* whatever the other consumer's iterator had reached.  (That a consumer
\* then misses or repeats rows is the reachable state C13_Witness.)
C13_OverlapUndetected ==
    lastCall.c # 0 =>
        /\ (lastCall.exc # "none") <=> EngineFailed(lastCall.rc)
        /\ lastCall.exc # "none" => lastCall.exc = lastCall.rc
        /\ (lastCall.op = "begin" /\ lastCall.rc = "SQLITE_ROW") => stmt.pos = 1

\* Over a result of two rows and with no failure raised, consumer 1 was shown
\* row 2 twice and consumer 2 reached the end having been shown row 1 only.
C13_Witness ==
    /\ stmt.rows = 2
    /\ consumer[1].seen = <<1, 2, 2>>
    /\ consumer[2].seen = <<1>>
    /\ consumer[2].it.live
    /\ iter_equal(consumer[2].it, end_iterator)
    /\ lastCall.exc = "none"

\* ---------------------------------------------------------------- claim C14

\* The guards whose constructor issued BEGIN.
Begun == {g \in DOMAIN guard : guard[g].state \in {"alive", "destroyed"}
                                  /\ origin[g] # "move"}

\* The COMMIT / ROLLBACK statements that were executed, as <<guard, index>>.
Ended == {e \in (DOMAIN guard) \X (1..(MaxCalls + 1)) :
             /\ e[2] <= Len(guard[e[1]].log)
             /\ guard[e[1]].log[e[2]].rc = "SQLITE_DONE"}

\* No engine call failed: no BEGIN and no step of COMMIT / ROLLBACK.
NoEngineFailure ==
    \A g \in DOMAIN guard :
        /\ guard[g].state # "failed"
        /\ \A i \in 1..Len(guard[g].log) : guard[g].log[i].rc = "SQLITE_DONE"

AllDestroyed == \A g \in DOMAIN guard : guard[g].state \in {"none", "destroyed"}

\* C14: when no engine call failed and every guard has been destroyed, every
\* BEGIN issued by a guard constructor has been matched by exactly one
\* executed COMMIT or ROLLBACK, and no transaction is left open.
C14_EveryBeginEnded ==
    (NoEngineFailure /\ AllDestroyed) =>
        /\ Cardinality(Ended) = Cardinality(Begun)
        /\ ~inTxn

\* ---------------------------------------------------------------- claim C15

\* The last statement guard g executed was run by commit() or rollback()
\* and raised.
RaisedLast(g) ==
    /\ guard[g].log # <<>>
    /\ Last(guard[g].log).by \in {"commit", "rollback"}
    /\ Last(guard[g].log).exc # "none"

\* One step of guard g, as C15 constrains it.
C15_Step(g) ==
    /\ (/\ guard'[g].log # <<>>
        /\ Last(guard'[g].log).by \in {"commit", "rollback"}
        /\ Last(guard'[g].log).exc # "none")
          => (guard'[g].needs_rollback /\ guard'[g].state = "alive")
    /\ (RaisedLast(g) /\ guard'[g] # guard[g]) =>
          /\ Len(guard'[g].log) = Len(guard[g].log) + 1
          /\ LET e == Last(guard'[g].log)
             IN /\ guard'[g].state = "alive" =>
                     /\ e.by \in {"commit", "rollback"}
                     /\ e.sql = IF e.by = "commit" THEN "COMMIT" ELSE "ROLLBACK"
                /\ guard'[g].state = "destroyed" =>
                     /\ e.by = "dtor"
                     /\ e.sql = "ROLLBACK"
                     /\ e.rc # "SQLITE_DONE" => e.exc = e.rc

\* C15: when the statement executed by commit() or rollback() raises, the
\* guard stays active with needs_rollback true; the next commit() or
\* rollback() executes its statement again, and the destructor executes
\* ROLLBACK, a failure of which leaves the destructor as a failure carrying
\* the engine's code.
C15_FailedRunKeepsActive == [][\A g \in DOMAIN guard : C15_Step(g)]_vars

\* commit() raised SQLITE_BUSY, and the destructor then executed ROLLBACK,
\* which raised SQLITE_BUSY as well.
C15_Witness ==
    \E g \in DOMAIN guard :
        /\ guard[g].state = "destroyed"
        /\ Len(guard[g].log) = 2
        /\ guard[g].log[1].by = "commit"
        /\ guard[g].log[1].exc = "SQLITE_BUSY"
        /\ guard[g].log[2].by = "dtor"
        /\ guard[g].log[2].sql = "ROLLBACK"
        /\ guard[g].log[2].exc = "SQLITE_BUSY"

====
